---- MODULE Spec2Model ----
(***************************************************************************)
(* Model of the stream fan-out server in src/app.py: the subscription      *)
(* registry (stream_subscriptions / client_streams), broadcast_to_stream,  *)
(* the per-connection websocket_endpoint loop, the heartbeat task and the  *)
(* periodic_broadcaster, scheduled as asyncio tasks: a task runs           *)
(* atomically from one await to the next.                                  *)
(***************************************************************************)
EXTENDS Integers, Sequences, FiniteSets, TLC

\* ------------------------------------------------------------------ bounds
MaxLog == 2            \* greetings entries appended before posts to it stop

Conns == {"c1", "c2"}  \* the WebSocket objects that may be accepted
PB == "periodic"       \* task id of periodic_broadcaster (a session's id is its connection)
Tasks == Conns \cup {PB}
NoConn == "None"       \* Python None where a WebSocket is expected

\* ------------------------------------------------------------ input space
KnownStreams == {"greetings", "notifications", "alerts"}
StreamNames == {"greetings", "alerts", "news"}
NoStream == "<falsy>"          \* missing, null or "" stream field
Unhashable == "<unhashable>"   \* a JSON list or object as the stream field
StreamArgs == StreamNames \cup {NoStream, Unhashable}
Blank == "<blank>"             \* content that is empty after strip()
NonString == "<nonstring>"     \* content that is not a str (no .strip)
ContentArgs == {"x", Blank, NonString}
MsgTypes == {"ping", "pong", "subscribe", "unsubscribe", "message"}

\* Inbound text frames, by what json.loads / msg.get make of them.
\*   json    : the text is valid JSON        object : it decodes to a dict
\*   blank   : the text is empty after strip()
Frame(json, object, blank, type, stream, content) ==
  [json |-> json, object |-> object, blank |-> blank,
   type |-> type, stream |-> stream, content |-> content]

InFrames ==
  {Frame(TRUE, TRUE, FALSE, t, NoStream, Blank) : t \in {"ping", "pong", "other"}}
  \cup {Frame(TRUE, TRUE, FALSE, t, s, Blank) :
          t \in {"subscribe", "unsubscribe"}, s \in StreamArgs}
  \cup {Frame(TRUE, TRUE, FALSE, "message", s, c) :
          s \in StreamArgs, c \in ContentArgs}
  \cup {Frame(TRUE, FALSE, FALSE, "none", NoStream, Blank),    \* 42, [1], "bob", null
        Frame(FALSE, FALSE, FALSE, "none", NoStream, Blank),   \* plain text
        Frame(FALSE, FALSE, TRUE, "none", NoStream, Blank)}    \* "" or whitespace

\* ------------------------------------------------------------------ state
VARIABLES
  stream_subscriptions,  \* dict: stream name -> set of connections
  client_streams,        \* dict: connection -> set of stream names
  greetings,             \* the message log (list of rendered strings)
  sess,                  \* per connection: position of websocket_endpoint
  hb,                    \* per connection: position of its heartbeat task
  pb,                    \* position of periodic_broadcaster
  bc                     \* per task: locals of its broadcast_to_stream call

vars == <<stream_subscriptions, client_streams, greetings, sess, hb, pb, bc>>

\* ------------------------------------------------------- dict primitives
DictDel(d, k) == [x \in (DOMAIN d) \ {k} |-> d[x]]
DictSetDefault(d, k, v) == IF k \in DOMAIN d THEN d ELSE d @@ (k :> v)

\* --------------------------------------------------------------- registry
Reg(ret, ss, cs) == [ret |-> ret, ss |-> ss, cs |-> cs]

\* Mutant: the "already subscribed" test is dropped.
subscribe_NoMembershipTest(ss, cs, websocket, stream_name) ==
  LET ss1 == DictSetDefault(ss, stream_name, {})
      ss2 == [ss1 EXCEPT ![stream_name] = @ \cup {websocket}]
      cs1 == DictSetDefault(cs, websocket, {})
      cs2 == [cs1 EXCEPT ![websocket] = @ \cup {stream_name}]
  IN Reg(TRUE, ss2, cs2)

subscribe_to_stream(ss, cs, websocket, stream_name) ==
  LET ss1 == DictSetDefault(ss, stream_name, {})
  IN IF websocket \in ss1[stream_name]
     THEN Reg(FALSE, ss1, cs)
     ELSE LET ss2 == [ss1 EXCEPT ![stream_name] = @ \cup {websocket}]
              cs1 == DictSetDefault(cs, websocket, {})
              cs2 == [cs1 EXCEPT ![websocket] = @ \cup {stream_name}]
          IN Reg(TRUE, ss2, cs2)

\* Mutant: the inverse map is not updated.
unsubscribe_KeepInverse(ss, cs, websocket, stream_name) ==
  IF stream_name \notin DOMAIN ss THEN Reg(FALSE, ss, cs)
  ELSE IF websocket \notin ss[stream_name] THEN Reg(FALSE, ss, cs)
  ELSE LET ss1 == [ss EXCEPT ![stream_name] = @ \ {websocket}]
           ss2 == IF ss1[stream_name] = {} THEN DictDel(ss1, stream_name) ELSE ss1
       IN Reg(TRUE, ss2, cs)

\* Mutant: an emptied stream set is not deleted.
unsubscribe_KeepEmptySet(ss, cs, websocket, stream_name) ==
  IF stream_name \notin DOMAIN ss THEN Reg(FALSE, ss, cs)
  ELSE IF websocket \notin ss[stream_name] THEN Reg(FALSE, ss, cs)
  ELSE LET ss1 == [ss EXCEPT ![stream_name] = @ \ {websocket}]
           cs1 == IF websocket \in DOMAIN cs
                  THEN [cs EXCEPT ![websocket] = @ \ {stream_name}]
                  ELSE cs
       IN Reg(TRUE, ss1, cs1)

\* Mutant: the stream set is looked up as in a defaultdict, which creates it.
unsubscribe_DefaultDict(ss, cs, websocket, stream_name) ==
  LET ss0 == DictSetDefault(ss, stream_name, {})
  IN IF websocket \notin ss0[stream_name] THEN Reg(FALSE, ss0, cs)
     ELSE LET ss1 == [ss0 EXCEPT ![stream_name] = @ \ {websocket}]
              cs1 == IF websocket \in DOMAIN cs
                     THEN [cs EXCEPT ![websocket] = @ \ {stream_name}]
                     ELSE cs
              ss2 == IF ss1[stream_name] = {} THEN DictDel(ss1, stream_name) ELSE ss1
          IN Reg(TRUE, ss2, cs1)

\* Mutant: the stream set is deleted without the emptiness test.
unsubscribe_AlwaysDelete(ss, cs, websocket, stream_name) ==
  IF stream_name \notin DOMAIN ss THEN Reg(FALSE, ss, cs)
  ELSE IF websocket \notin ss[stream_name] THEN Reg(FALSE, ss, cs)
  ELSE LET cs1 == IF websocket \in DOMAIN cs
                  THEN [cs EXCEPT ![websocket] = @ \ {stream_name}]
                  ELSE cs
       IN Reg(TRUE, DictDel(ss, stream_name), cs1)

unsubscribe_from_stream(ss, cs, websocket, stream_name) ==
  IF stream_name \notin DOMAIN ss THEN Reg(FALSE, ss, cs)
  ELSE IF websocket \notin ss[stream_name] THEN Reg(FALSE, ss, cs)
  ELSE LET ss1 == [ss EXCEPT ![stream_name] = @ \ {websocket}]
           cs1 == IF websocket \in DOMAIN cs
                  THEN [cs EXCEPT ![websocket] = @ \ {stream_name}]
                  ELSE cs
           ss2 == IF ss1[stream_name] = {} THEN DictDel(ss1, stream_name) ELSE ss1
       IN Reg(TRUE, ss2, cs1)

\* The for loop of cleanup_client_subscriptions over list(client_streams[ws]).
RECURSIVE UnsubscribeAll(_, _, _, _)
UnsubscribeAll(ss, cs, websocket, streams) ==
  IF streams = {} THEN Reg(TRUE, ss, cs)
  ELSE LET s == CHOOSE x \in streams : TRUE
           r == unsubscribe_from_stream(ss, cs, websocket, s)
       IN UnsubscribeAll(r.ss, r.cs, websocket, streams \ {s})

\* Mutant: the inverse-map entry is not deleted.
cleanup_KeepEntry(ss, cs, websocket) ==
  IF websocket \notin DOMAIN cs THEN Reg(TRUE, ss, cs)
  ELSE LET r == UnsubscribeAll(ss, cs, websocket, cs[websocket])
       IN Reg(TRUE, r.ss, r.cs)

cleanup_client_subscriptions(ss, cs, websocket) ==
  IF websocket \notin DOMAIN cs THEN Reg(TRUE, ss, cs)
  ELSE LET r == UnsubscribeAll(ss, cs, websocket, cs[websocket])
       IN Reg(TRUE, r.ss,
              IF websocket \in DOMAIN r.cs THEN DictDel(r.cs, websocket) ELSE r.cs)

\* The second for loop of broadcast_to_stream: cleanup of every collected client.
RECURSIVE CleanupAll(_, _, _)
CleanupAll(ss, cs, disconnected) ==
  IF disconnected = {} THEN Reg(TRUE, ss, cs)
  ELSE LET c == CHOOSE x \in disconnected : TRUE
           r == cleanup_client_subscriptions(ss, cs, c)
       IN CleanupAll(r.ss, r.cs, disconnected \ {c})

\* ------------------------------------------------- broadcast_to_stream
\* Locals of one running broadcast_to_stream call, suspended in send_text.
\*   stream       : stream_name
\*   cur          : client, the connection whose send_text is awaited
\*   sent         : clients the loop has yielded and called send_text on
\*   disconnected : the disconnected list (cleanup is order-independent and
\*                  idempotent, so it is kept as a set)
\*   subs0        : stream_subscriptions[stream_name] when the for loop began;
\*                  its size is the set iterator's si_used
\*   detached     : the iterated set object was emptied and deleted from the dict
\*   dirty        : the iterated set object was mutated since the loop began
\*   pending      : once dirty, the members the iterator may still yield
NoFrame ==
  [active |-> FALSE, stream |-> NoStream, cur |-> NoConn, sent |-> {},
   disconnected |-> {}, subs0 |-> {}, detached |-> FALSE, dirty |-> FALSE,
   pending |-> {}]

NewFrame(ss, stream_name) ==
  [NoFrame EXCEPT !.active = TRUE, !.stream = stream_name, !.subs0 = ss[stream_name]]

\* The set object the iterator of frame f walks, as it is now.
LiveSet(f, ss) == IF f.detached THEN {} ELSE ss[f.stream]

Out(k, f) == [k |-> k, f |-> f]

\* Run the for loop of broadcast_to_stream from next(iterator) to the next
\* await: the outcomes are "raise" (RuntimeError: Set changed size during
\* iteration), "stop" (the loop is over) or "send" (suspended in send_text
\* to f.cur).  An unmutated set yields each member once, in any order.  A set
\* mutated back to its old size passes the iterator's size check, and the
\* iterator then walks a rearranged hash table: CPython skips or repeats
\* members, touched or not, so any member or the end of the loop may come next.
LoopNext(f, ss, exclude) ==
  IF Cardinality(LiveSet(f, ss)) # Cardinality(f.subs0) THEN {Out("raise", f)}
  ELSE LET live == LiveSet(f, ss)
           cand == (IF f.dirty THEN f.pending \cap live ELSE live \ f.sent) \ {exclude}
           sends == {Out("send", [f EXCEPT !.cur = x, !.sent = @ \cup {x},
                                           !.pending = @ \ {x}]) : x \in cand}
       IN IF cand = {} \/ f.dirty THEN sends \cup {Out("stop", f)} ELSE sends

\* Mutant: the except clause swallows the failure without recording the client.
AfterSend_Swallow(f, ok) == f

\* The await of send_text returns (ok) or raises (~ok, the bare except).
AfterSend(f, ok) ==
  IF ok THEN f ELSE [f EXCEPT !.disconnected = @ \cup {f.cur}]

\* What a mutation of the registry from ss to ss2 does to the iterator of a
\* suspended broadcast.
TouchFrame(f, ss, ss2) ==
  IF ~f.active \/ f.detached THEN f
  ELSE IF f.stream \notin DOMAIN ss2
       THEN [f EXCEPT !.detached = TRUE, !.dirty = TRUE, !.pending = {}]
  ELSE IF ss2[f.stream] # ss[f.stream]
       THEN [f EXCEPT !.dirty = TRUE, !.pending = ss2[f.stream]]
       ELSE f

\* Install the registry r and the frames b, adjusting every suspended iterator.
SetRegistry(r, b) ==
  /\ stream_subscriptions' = r.ss
  /\ client_streams' = r.cs
  /\ bc' = [t \in Tasks |-> TouchFrame(b[t], stream_subscriptions, r.ss)]

\* ------------------------------------------------- websocket_endpoint
NoReply == [type |-> "none", stream |-> NoStream, success |-> FALSE]
Reply(type, stream, success) == [type |-> type, stream |-> stream, success |-> success]
At(pc) == [pc |-> pc, reply |-> NoReply]
Sending(reply) == [pc |-> "send", reply |-> reply]

Active(c) == sess[c].pc \in {"recv", "send", "bcast"}

\* Mutant: the finally block does not clean up the subscriptions.
Close_NoCleanup(c, b) ==
  /\ sess' = [sess EXCEPT ![c] = At("closed")]
  /\ hb' = [hb EXCEPT ![c] = IF @ \in {"sleep", "send"} THEN "cancelled" ELSE @]
  /\ SetRegistry(Reg(TRUE, stream_subscriptions, client_streams),
                 [b EXCEPT ![c] = NoFrame])

\* Mutant: the finally block does not cancel the heartbeat task.
Close_NoCancel(c, b) ==
  /\ sess' = [sess EXCEPT ![c] = At("closed")]
  /\ hb' = hb
  /\ SetRegistry(cleanup_client_subscriptions(stream_subscriptions, client_streams, c),
                 [b EXCEPT ![c] = NoFrame])

\* finally: heartbeat_task.cancel(); cleanup_client_subscriptions(websocket)
Close(c, b) ==
  /\ sess' = [sess EXCEPT ![c] = At("closed")]
  /\ hb' = [hb EXCEPT ![c] = IF @ \in {"sleep", "send"} THEN "cancelled" ELSE @]
  /\ SetRegistry(cleanup_client_subscriptions(stream_subscriptions, client_streams, c),
                 [b EXCEPT ![c] = NoFrame])

\* The outcome o of the broadcast loop of session c.
SessionBroadcast(c, o) ==
  CASE o.k = "send" ->
         /\ sess' = [sess EXCEPT ![c] = At("bcast")]
         /\ bc' = [bc EXCEPT ![c] = o.f]
         /\ UNCHANGED <<stream_subscriptions, client_streams, hb>>
    [] o.k = "stop" ->
         /\ sess' = [sess EXCEPT ![c] = At("recv")]
         /\ SetRegistry(CleanupAll(stream_subscriptions, client_streams, o.f.disconnected),
                        [bc EXCEPT ![c] = NoFrame])
         /\ UNCHANGED hb
    [] o.k = "raise" -> Close(c, bc)

\* await broadcast_to_stream(stream_name, turbo_stream) called by session c
SessionCall(c, stream_name) ==
  IF stream_name \notin DOMAIN stream_subscriptions
  THEN /\ sess' = [sess EXCEPT ![c] = At("recv")]
       /\ UNCHANGED <<stream_subscriptions, client_streams, hb, bc>>
  ELSE \E o \in LoopNext(NewFrame(stream_subscriptions, stream_name),
                         stream_subscriptions, NoConn) :
         SessionBroadcast(c, o)

Accept(c) ==
  /\ sess[c].pc = "accept"
  /\ sess' = [sess EXCEPT ![c] = At("recv")]
  /\ hb' = [hb EXCEPT ![c] = "sleep"]
  /\ UNCHANGED <<stream_subscriptions, client_streams, greetings, pb, bc>>

\* Mutant: a receive timeout ends the loop at once.
Timeout_Break(c) ==
  /\ sess[c].pc = "recv"
  /\ Close(c, bc)
  /\ UNCHANGED <<greetings, pb>>

\* asyncio.TimeoutError: send a ping to the own connection
Timeout(c) ==
  /\ sess[c].pc = "recv"
  /\ sess' = [sess EXCEPT ![c] = Sending(Reply("ping", NoStream, FALSE))]
  /\ UNCHANGED <<stream_subscriptions, client_streams, greetings, hb, pb, bc>>

\* receive_text raises WebSocketDisconnect or another error
Disconnect(c) ==
  /\ sess[c].pc = "recv"
  /\ Close(c, bc)
  /\ UNCHANGED <<greetings, pb>>

\* Mutant: a ping is answered with a ping.
HandlePing_Echo(c, m) ==
  /\ m.object /\ m.type = "ping"
  /\ sess' = [sess EXCEPT ![c] = Sending(Reply("ping", NoStream, FALSE))]
  /\ UNCHANGED <<stream_subscriptions, client_streams, greetings, hb, pb, bc>>

HandlePing(c, m) ==
  /\ m.object /\ m.type = "ping"
  /\ sess' = [sess EXCEPT ![c] = Sending(Reply("pong", NoStream, FALSE))]
  /\ UNCHANGED <<stream_subscriptions, client_streams, greetings, hb, pb, bc>>

HandlePong(c, m) ==
  /\ m.object /\ m.type = "pong"
  /\ UNCHANGED vars

HandleSubscribe(c, m) ==
  /\ m.object /\ m.type = "subscribe"
  /\ UNCHANGED <<greetings, pb>>
  /\ CASE m.stream = NoStream -> UNCHANGED <<stream_subscriptions, client_streams, sess, hb, bc>>
       [] m.stream = Unhashable -> Close(c, bc)     \* TypeError: unhashable type
       [] OTHER ->
            LET r == subscribe_to_stream(stream_subscriptions, client_streams, c, m.stream)
            IN /\ SetRegistry(r, bc)
               /\ sess' = [sess EXCEPT ![c] = Sending(Reply("subscribed", m.stream, r.ret))]
               /\ UNCHANGED hb

HandleUnsubscribe(c, m) ==
  /\ m.object /\ m.type = "unsubscribe"
  /\ UNCHANGED <<greetings, pb>>
  /\ CASE m.stream = NoStream -> UNCHANGED <<stream_subscriptions, client_streams, sess, hb, bc>>
       [] m.stream = Unhashable -> Close(c, bc)     \* TypeError: unhashable type
       [] OTHER ->
            LET r == unsubscribe_from_stream(stream_subscriptions, client_streams, c, m.stream)
            IN /\ SetRegistry(r, bc)
               /\ sess' = [sess EXCEPT ![c] = Sending(Reply("unsubscribed", m.stream, r.ret))]
               /\ UNCHANGED hb

HandleMessage(c, m) ==
  /\ m.object /\ m.type = "message"
  /\ UNCHANGED pb
  /\ CASE m.content = NonString ->                  \* AttributeError on .strip()
            /\ Close(c, bc)
            /\ UNCHANGED greetings
       [] m.content # NonString /\ (m.stream = NoStream \/ m.content = Blank) ->
            UNCHANGED <<stream_subscriptions, client_streams, greetings, sess, hb, bc>>
       [] OTHER ->
            IF m.stream = "greetings"
            THEN /\ Len(greetings) < MaxLog
                 /\ greetings' = Append(greetings, "Hello")
                 /\ SessionCall(c, "greetings")
            ELSE IF m.stream \in KnownStreams \ {"greetings"}
            THEN /\ SessionCall(c, m.stream)
                 /\ UNCHANGED greetings
            ELSE UNCHANGED <<stream_subscriptions, client_streams, greetings, sess, hb, bc>>

\* json.loads succeeded but the value has no .get: AttributeError
HandleNonObject(c, m) ==
  /\ m.json /\ ~m.object
  /\ Close(c, bc)
  /\ UNCHANGED <<greetings, pb>>

\* The code after the try block: reached on JSONDecodeError and when no
\* branch of the if/elif chain ran.
HandleLegacy(c, m) ==
  /\ \/ ~m.json
     \/ m.object /\ m.type \notin MsgTypes
  /\ UNCHANGED pb
  /\ IF m.blank
     THEN UNCHANGED <<stream_subscriptions, client_streams, greetings, sess, hb, bc>>
     ELSE /\ Len(greetings) < MaxLog
          /\ greetings' = Append(greetings, "Hello")
          /\ SessionCall(c, "greetings")

\* One pass of the while loop on a received text frame.
Receive(c, m) ==
  /\ sess[c].pc = "recv"
  /\ \/ HandlePing(c, m)
     \/ HandlePong(c, m)
     \/ HandleSubscribe(c, m)
     \/ HandleUnsubscribe(c, m)
     \/ HandleMessage(c, m)
     \/ HandleNonObject(c, m)
     \/ HandleLegacy(c, m)

\* The await of a reply's send_text returns (ok) or raises.
SessionSendDone(c, ok) ==
  /\ sess[c].pc = "send"
  /\ UNCHANGED <<greetings, pb>>
  /\ IF ok
     THEN /\ sess' = [sess EXCEPT ![c] = At("recv")]
          /\ UNCHANGED <<stream_subscriptions, client_streams, hb, bc>>
     ELSE Close(c, bc)

\* The await of client.send_text inside the session's broadcast returns or raises.
SessionBroadcastSendDone(c, ok) ==
  /\ sess[c].pc = "bcast"
  /\ UNCHANGED <<greetings, pb>>
  /\ \E o \in LoopNext(AfterSend(bc[c], ok), stream_subscriptions, NoConn) :
       SessionBroadcast(c, o)

\* ------------------------------------------------------------ heartbeat
HeartbeatTick(c) ==
  /\ hb[c] = "sleep"
  /\ hb' = [hb EXCEPT ![c] = "send"]
  /\ UNCHANGED <<stream_subscriptions, client_streams, greetings, sess, pb, bc>>

HeartbeatSendDone(c, ok) ==
  /\ hb[c] = "send"
  /\ hb' = [hb EXCEPT ![c] = IF ok THEN "sleep" ELSE "done"]
  /\ UNCHANGED <<stream_subscriptions, client_streams, greetings, sess, pb, bc>>

\* -------------------------------------------------- periodic_broadcaster
PeriodicBroadcast(o) ==
  CASE o.k = "send" ->
         /\ pb' = "bcast"
         /\ bc' = [bc EXCEPT ![PB] = o.f]
         /\ UNCHANGED <<stream_subscriptions, client_streams>>
    [] o.k = "stop" ->
         /\ pb' = "sleep"
         /\ SetRegistry(CleanupAll(stream_subscriptions, client_streams, o.f.disconnected),
                        [bc EXCEPT ![PB] = NoFrame])
    [] o.k = "raise" ->
         /\ pb' = "dead"
         /\ bc' = [bc EXCEPT ![PB] = NoFrame]
         /\ UNCHANGED <<stream_subscriptions, client_streams>>

PeriodicTick ==
  /\ pb = "sleep"
  /\ UNCHANGED <<sess, hb>>
  /\ IF "greetings" \in DOMAIN stream_subscriptions
        /\ stream_subscriptions["greetings"] # {}
     THEN /\ Len(greetings) < MaxLog
          /\ greetings' = Append(greetings, "Server ping")
          /\ \E o \in LoopNext(NewFrame(stream_subscriptions, "greetings"),
                               stream_subscriptions, NoConn) :
               PeriodicBroadcast(o)
     ELSE UNCHANGED <<stream_subscriptions, client_streams, greetings, pb, bc>>

PeriodicSendDone(ok) ==
  /\ pb = "bcast"
  /\ UNCHANGED <<greetings, sess, hb>>
  /\ \E o \in LoopNext(AfterSend(bc[PB], ok), stream_subscriptions, NoConn) :
       PeriodicBroadcast(o)

\* ------------------------------------------------------- specification
Init ==
  /\ stream_subscriptions = <<>>
  /\ client_streams = <<>>
  /\ greetings = <<>>
  /\ sess = [c \in Conns |-> At("accept")]
  /\ hb = [c \in Conns |-> "none"]
  /\ pb = "sleep"
  /\ bc = [t \in Tasks |-> NoFrame]

\* The session tasks: every websocket_endpoint coroutine with the registry
\* operations and the broadcasts it runs.
Next ==
  \/ \E c \in Conns : Accept(c)
  \/ \E c \in Conns : Timeout(c)
  \/ \E c \in Conns : Disconnect(c)
  \/ \E c \in Conns, m \in InFrames : Receive(c, m)
  \/ \E c \in Conns, ok \in BOOLEAN : SessionSendDone(c, ok)
  \/ \E c \in Conns, ok \in BOOLEAN : SessionBroadcastSendDone(c, ok)

Spec == Init /\ [][Next]_vars

\* The session tasks together with the heartbeat tasks and periodic_broadcaster.
NextTasks ==
  \/ Next
  \/ \E c \in Conns : HeartbeatTick(c)
  \/ \E c \in Conns, ok \in BOOLEAN : HeartbeatSendDone(c, ok)
  \/ PeriodicTick
  \/ \E ok \in BOOLEAN : PeriodicSendDone(ok)

SpecTasks == Init /\ [][NextTasks]_vars

TypeOK ==
  /\ DOMAIN stream_subscriptions \subseteq StreamNames
  /\ \A s \in DOMAIN stream_subscriptions : stream_subscriptions[s] \subseteq Conns
  /\ DOMAIN client_streams \subseteq Conns
  /\ \A c \in DOMAIN client_streams : client_streams[c] \subseteq StreamNames
  /\ Len(greetings) <= MaxLog
  /\ \A c \in Conns : sess[c].pc \in {"accept", "recv", "send", "bcast", "closed"}
  /\ \A c \in Conns : hb[c] \in {"none", "sleep", "send", "done", "cancelled"}
  /\ pb \in {"sleep", "bcast", "dead"}
  /\ \A t \in Tasks : bc[t].active <=> (IF t = PB THEN pb = "bcast" ELSE sess[t].pc = "bcast")

\* ================================================================ claims
\* Connection c is in the subscriber set of stream t (forward map).
InForward(ss, c, t) == t \in DOMAIN ss /\ c \in ss[t]
\* Stream t is in the stream set of connection c (inverse map).
InInverse(cs, c, t) == c \in DOMAIN cs /\ t \in cs[c]
\* The streams connection c is subscribed to, read off the forward map.
StreamsOf(ss, c) == {t \in DOMAIN ss : c \in ss[t]}

\* C1: in every reachable state the forward map and the inverse map agree:
\* connection c is in stream_subscriptions[t] iff t is in client_streams[c].
C1_MapsAgree ==
  \A c \in Conns, t \in StreamNames :
    InForward(stream_subscriptions, c, t) <=> InInverse(client_streams, c, t)

\* A session has been cleaned up while the other holds two subscriptions and
\* has just unsubscribed from a third stream.
C1_Witness ==
  \E c, d \in Conns :
    /\ sess[c].pc = "closed"
    /\ sess[d].reply.type = "unsubscribed" /\ sess[d].reply.success
    /\ Cardinality(StreamsOf(stream_subscriptions, d)) = 2
    /\ client_streams[d] = StreamsOf(stream_subscriptions, d)

\* C2: between registry operations no key of stream_subscriptions maps to an
\* empty set: a stream name is a key iff it has a subscriber.
C2_NoEmptyStreamSet ==
  \A t \in StreamNames :
    t \in DOMAIN stream_subscriptions
      <=> \E c \in Conns : InForward(stream_subscriptions, c, t)

\* The last subscriber of a stream has just unsubscribed and its key is gone,
\* while another stream still has its key.
C2_Witness ==
  \E c \in Conns :
    /\ sess[c].reply.type = "unsubscribed" /\ sess[c].reply.success
    /\ sess[c].reply.stream \notin DOMAIN stream_subscriptions
    /\ DOMAIN stream_subscriptions # {}

\* C3: in every reachable state, for every connection c and stream t, if
\* subscribe_to_stream(c, t) returns True then c is in t's subscriber set
\* afterwards, and a second subscribe_to_stream(c, t) returns False and leaves
\* both maps as they were.
C3_SubscribeIdempotent ==
  \A c \in Conns, t \in StreamNames :
    LET r1 == subscribe_to_stream(stream_subscriptions, client_streams, c, t)
        r2 == subscribe_to_stream(r1.ss, r1.cs, c, t)
    IN /\ r1.ret => InForward(r1.ss, c, t)
       /\ InForward(r1.ss, c, t) => (~r2.ret /\ r2.ss = r1.ss /\ r2.cs = r1.cs)
       /\ ~r1.ret => (r1.ss = stream_subscriptions /\ r1.cs = client_streams)

\* A session is being told success=false for a stream it is subscribed to.
C3_Witness ==
  \E c \in Conns :
    /\ sess[c].reply.type = "subscribed" /\ ~sess[c].reply.success
    /\ InForward(stream_subscriptions, c, sess[c].reply.stream)

\* C4: in every reachable state, for every connection c not subscribed to
\* stream t (t absent, or t present with other subscribers),
\* unsubscribe_from_stream(c, t) returns False and changes neither map.
C4_UnsubscribeAbsentNoop ==
  \A c \in Conns, t \in StreamNames :
    ~InForward(stream_subscriptions, c, t) =>
      unsubscribe_from_stream(stream_subscriptions, client_streams, c, t)
        = Reg(FALSE, stream_subscriptions, client_streams)

\* A session is being told success=false for an unsubscribe from a stream that
\* has another subscriber, and from one that does not exist.
C4_Witness ==
  \E c, d \in Conns :
    /\ sess[c].reply.type = "unsubscribed" /\ ~sess[c].reply.success
    /\ sess[d].reply.type = "unsubscribed" /\ ~sess[d].reply.success
    /\ sess[c].reply.stream \in DOMAIN stream_subscriptions
    /\ sess[d].reply.stream \notin DOMAIN stream_subscriptions

\* C5 as stated: in every reachable state where c is not subscribed to t,
\* subscribe_to_stream(c, t) followed by unsubscribe_from_stream(c, t) leaves
\* the forward map and the inverse map equal to what they were.
C5_RoundTripExact ==
  \A c \in Conns, t \in StreamNames :
    ~InForward(stream_subscriptions, c, t) =>
      LET r1 == subscribe_to_stream(stream_subscriptions, client_streams, c, t)
          r2 == unsubscribe_from_stream(r1.ss, r1.cs, c, t)
      IN r2.ss = stream_subscriptions /\ r2.cs = client_streams

\* C5 as amended: in every reachable state where c is not subscribed to t,
\* subscribe then unsubscribe both return True and restore the forward map;
\* the inverse map is restored when c already had an entry, and otherwise
\* differs from its old value only by a new entry mapping c to the empty set.
C5_RoundTrip ==
  \A c \in Conns, t \in StreamNames :
    ~InForward(stream_subscriptions, c, t) =>
      LET r1 == subscribe_to_stream(stream_subscriptions, client_streams, c, t)
          r2 == unsubscribe_from_stream(r1.ss, r1.cs, c, t)
      IN /\ r1.ret /\ r2.ret
         /\ r2.ss = stream_subscriptions
         /\ r2.cs = DictSetDefault(client_streams, c, {})

\* A connection has subscribed to its first stream and unsubscribed again: it
\* is left with an empty inverse-map entry, and the stream, which another
\* connection holds, is still there.
C5_Witness ==
  \E c \in Conns :
    /\ sess[c].reply.type = "unsubscribed" /\ sess[c].reply.success
    /\ c \in DOMAIN client_streams /\ client_streams[c] = {}
    /\ sess[c].reply.stream \in DOMAIN stream_subscriptions

\* C6: in every reachable state, for every connection c, after
\* cleanup_client_subscriptions(c) c is in no subscriber set and is no key of
\* the inverse map, every other connection's subscriptions are unchanged, and
\* a second cleanup (or one for a connection without an entry) changes nothing.
C6_CleanupRemovesAll ==
  \A c \in Conns :
    LET r == cleanup_client_subscriptions(stream_subscriptions, client_streams, c)
    IN /\ StreamsOf(r.ss, c) = {}
       /\ c \notin DOMAIN r.cs
       /\ \A d \in Conns \ {c} :
            /\ StreamsOf(r.ss, d) = StreamsOf(stream_subscriptions, d)
            /\ d \in DOMAIN r.cs <=> d \in DOMAIN client_streams
            /\ d \in DOMAIN r.cs => r.cs[d] = client_streams[d]
       /\ cleanup_client_subscriptions(r.ss, r.cs, c) = r
       /\ c \notin DOMAIN client_streams =>
            (r.ss = stream_subscriptions /\ r.cs = client_streams)

\* A session has ended, its cleanup has run, and the other connection still
\* holds its two subscriptions.
C6_Witness ==
  \E c, d \in Conns :
    /\ sess[c].pc = "closed" /\ hb[c] = "cancelled"
    /\ c \notin DOMAIN client_streams
    /\ sess[d].pc = "recv"
    /\ Cardinality(StreamsOf(stream_subscriptions, d)) = 2

\* What C7 asks of the step in which the send_text awaited by the broadcast of
\* session c returns (ok) or raises (~ok).
C7_Step(c, ok) ==
  LET f == bc[c]
      failed == f.disconnected \cup (IF ok THEN {} ELSE {f.cur})
      live == LiveSet(f, stream_subscriptions)
  IN \* while the pass goes on, the failure is recorded and nobody is removed
     /\ sess'[c].pc = "bcast" =>
          /\ bc'[c].disconnected = failed
          /\ UNCHANGED <<stream_subscriptions, client_streams>>
     \* a failed send does not end the pass: the next subscriber is sent to
     /\ (~f.dirty /\ live \ f.sent # {}) =>
          /\ sess'[c].pc = "bcast"
          /\ bc'[c].cur \in live \ f.sent
     \* once the call returns, every failed subscriber is gone from both maps
     /\ sess'[c].pc = "recv" =>
          \A d \in failed :
            /\ StreamsOf(stream_subscriptions', d) = {}
            /\ d \notin DOMAIN client_streams'

\* C7: in broadcast_to_stream a send that raises does not stop the fan-out (the
\* remaining subscribers are still sent the message), the broadcast removes no
\* subscriber while it is iterating, and when the call returns every
\* subscriber whose send failed is in no subscriber set and has no
\* inverse-map entry.
C7_BroadcastIsolatesFailures ==
  [][\A c \in Conns, ok \in BOOLEAN :
       SessionBroadcastSendDone(c, ok) => C7_Step(c, ok)]_vars

\* A broadcast has had a send fail, has kept the failing subscriber in the
\* stream's set, and is now sending to another subscriber.
C7_Witness ==
  \E c \in Conns :
    /\ sess[c].pc = "bcast" /\ ~bc[c].dirty
    /\ bc[c].disconnected # {}
    /\ bc[c].cur \notin bc[c].disconnected
    /\ bc[c].disconnected \subseteq stream_subscriptions[bc[c].stream]

\* C8 as stated: when the broadcast started by a post ends, the connections it
\* sent the fragment to are exactly those subscribed to the stream when the
\* post was handled.
C8_SentToExactlyTheSubscribers ==
  [][\A c \in Conns :
       (sess[c].pc = "bcast" /\ sess'[c].pc # "bcast") =>
         bc[c].sent = bc[c].subs0]_vars

\* C9 as stated: whenever a session is waiting for a frame, a message post
\* with content to any stream that has subscribers, known or not, puts the
\* session into a broadcast to that stream's subscribers.
C9_AnyTopicIsBroadcast ==
  \A c \in Conns, s \in StreamNames :
    (/\ sess[c].pc = "recv"
     /\ s \in DOMAIN stream_subscriptions
     /\ Len(greetings) < MaxLog)
    => ENABLED (/\ Receive(c, Frame(TRUE, TRUE, FALSE, "message", s, "x"))
                /\ sess'[c].pc = "bcast"
                /\ bc'[c].stream = s)

PingFrame == Frame(TRUE, TRUE, FALSE, "ping", NoStream, Blank)
Pong == Reply("pong", NoStream, FALSE)

\* The step in which session c takes a ping off its connection: the pong is
\* the frame it sends next, and nothing else changes.
C10_Receive(c) ==
  Receive(c, PingFrame) =>
    /\ sess' = [sess EXCEPT ![c] = Sending(Pong)]
    /\ UNCHANGED <<stream_subscriptions, client_streams, greetings, hb, pb, bc>>

\* C10 as stated: a ping is answered with a pong and has no other effect: no
\* broadcast, registry and log unchanged, and the session stays ACTIVE.
C10_PingOnlyPongs ==
  [][\A c \in Conns :
       /\ C10_Receive(c)
       /\ (sess[c] = Sending(Pong) /\ sess'[c] # sess[c]) =>
            /\ sess' = [sess EXCEPT ![c] = At("recv")]
            /\ UNCHANGED <<stream_subscriptions, client_streams, greetings, hb, pb, bc>>]_vars

\* C10 as amended: a ping is answered with a pong, which is the next frame the
\* session sends, and receiving it changes nothing else. When the pong's send
\* succeeds the session is ACTIVE again with registry, log and broadcasts
\* untouched; when the send fails the session ends and its cleanup removes
\* its own subscriptions, the log and every other session staying as they were.
C10_PingPong ==
  [][\A c \in Conns :
       /\ C10_Receive(c)
       /\ (sess[c] = Sending(Pong) /\ sess'[c] # sess[c]) =>
            /\ UNCHANGED <<greetings, pb>>
            /\ \/ /\ SessionSendDone(c, TRUE)
                  /\ sess' = [sess EXCEPT ![c] = At("recv")]
                  /\ UNCHANGED <<stream_subscriptions, client_streams, hb, bc>>
               \/ /\ SessionSendDone(c, FALSE)
                  /\ sess' = [sess EXCEPT ![c] = At("closed")]
                  /\ StreamsOf(stream_subscriptions', c) = {}
                  /\ \A d \in Conns \ {c} :
                       StreamsOf(stream_subscriptions', d) = StreamsOf(stream_subscriptions, d)]_vars

\* A subscribed session is sending a pong while the log has an entry.
C10_Witness ==
  \E c \in Conns :
    /\ sess[c] = Sending(Pong)
    /\ StreamsOf(stream_subscriptions, c) # {}
    /\ greetings # <<>>

\* C11 as stated: a structured payload with an unrecognised type tag is
\* ignored: no reply, no broadcast, no append to the log, no registry change,
\* and the session goes on waiting for the next frame.
C11_UnknownKindIgnored ==
  [][\A c \in Conns :
       Receive(c, Frame(TRUE, TRUE, FALSE, "other", NoStream, Blank)) =>
         UNCHANGED <<stream_subscriptions, client_streams, greetings, sess, bc>>]_vars

\* C12 as stated: no inbound frame, however malformed, moves the session out
\* of ACTIVE: after handling it the session still runs.
C12_NoFrameClosesSession ==
  [][\A c \in Conns, m \in InFrames :
       Receive(c, m) => sess'[c].pc # "closed"]_vars

\* C13: once a session is CLOSED, whichever way its loop ended, its connection
\* is in no subscriber set and has no inverse-map entry, no stream key is left
\* with an empty set, and this stays so in every later state.
C13_ClosedIsGone ==
  \A c \in Conns :
    sess[c].pc = "closed" =>
      /\ StreamsOf(stream_subscriptions, c) = {}
      /\ c \notin DOMAIN client_streams
      /\ \A t \in DOMAIN stream_subscriptions : stream_subscriptions[t] # {}

\* A session has ended while another session's broadcast, begun when the
\* ended one was still subscribed, is under way.
C13_Witness ==
  \E c, d \in Conns :
    /\ sess[c].pc = "closed"
    /\ sess[d].pc = "bcast" /\ c \in bc[d].subs0
    /\ StreamsOf(stream_subscriptions, d) # {}

TimeoutPing == Reply("ping", NoStream, FALSE)

\* C14: on a receive timeout the session sends a ping to its own connection
\* and nothing else changes; when that send succeeds the session waits again
\* with the registry untouched, and only when that send fails does the
\* session end.
C14_TimeoutPings ==
  [][\A c \in Conns :
       /\ Timeout(c) =>
            /\ sess' = [sess EXCEPT ![c] = Sending(TimeoutPing)]
            /\ UNCHANGED <<stream_subscriptions, client_streams, greetings, hb, bc>>
       /\ (sess[c] = Sending(TimeoutPing) /\ sess'[c] # sess[c]) =>
            \/ /\ SessionSendDone(c, TRUE)
               /\ sess' = [sess EXCEPT ![c] = At("recv")]
               /\ UNCHANGED <<stream_subscriptions, client_streams, greetings, hb, bc>>
            \/ /\ SessionSendDone(c, FALSE)
               /\ sess'[c].pc = "closed"]_vars

\* A session holding two subscriptions is sending its timeout ping.
C14_Witness ==
  \E c \in Conns :
    /\ sess[c] = Sending(TimeoutPing)
    /\ Cardinality(StreamsOf(stream_subscriptions, c)) = 2

\* C15 as stated: a broadcast whose topic is mutated by another task while it
\* is suspended in a send still completes without raising, and when it returns
\* it has attempted every connection subscribed at its start that was not
\* removed meanwhile.
C15_BroadcastToleratesMutation ==
  [][\A c \in Conns, ok \in BOOLEAN :
       SessionBroadcastSendDone(c, ok) =>
         /\ sess'[c].pc # "closed"
         /\ (sess'[c].pc = "recv" /\ ~bc[c].dirty) => bc[c].subs0 \subseteq bc[c].sent]_vars

\* C16 as stated: a session ends only through its own disconnect, its own
\* receive error or a failed send of its own reply or timeout ping; what
\* other connections do, also during this session's broadcast, never ends it.
C16_OnlyOwnErrorsClose ==
  [][\A c \in Conns :
       (sess[c].pc # "closed" /\ sess'[c].pc = "closed") =>
         \/ Disconnect(c)
         \/ SessionSendDone(c, FALSE)
         \/ \E m \in InFrames : Receive(c, m)]_vars

\* The tasks that have a send_text to connection c in flight.
Writers(c) ==
  {<<"session", t>> : t \in {x \in Conns : x = c /\ sess[x].pc = "send"}}
    \cup {<<"heartbeat", t>> : t \in {x \in Conns : x = c /\ hb[x] = "send"}}
    \cup {<<"broadcast", t>> : t \in {x \in Tasks : bc[x].active /\ bc[x].cur = c}}

\* C17 as stated: in no reachable state are two sends to the same connection
\* in flight at once, whoever the writers are.
C17_WritesSerialized ==
  \A c \in Conns : Cardinality(Writers(c)) <= 1

\* ------------------------------------------------ a subscriber that is stuck
\* The connection whose transport never finishes a send: send_text to it
\* neither returns nor raises.
StuckConn == "c2"

\* A broadcast's send to a connection other than the stuck one returns or raises.
HealthySendDone ==
  \E c \in Conns, ok \in BOOLEAN :
    bc[c].cur # StuckConn /\ SessionBroadcastSendDone(c, ok)

\* The session tasks when every send to StuckConn stays pending for ever.
NextStuck ==
  \/ \E c \in Conns : Accept(c)
  \/ \E c \in Conns : Timeout(c)
  \/ \E c \in Conns : Disconnect(c)
  \/ \E c \in Conns, m \in InFrames : Receive(c, m)
  \/ \E c \in Conns \ {StuckConn}, ok \in BOOLEAN : SessionSendDone(c, ok)
  \/ HealthySendDone

\* The event loop resumes a broadcast as soon as its awaited send is over, and
\* the transport of a healthy connection finishes every send.
SpecStuck == Init /\ [][NextStuck]_vars /\ WF_vars(HealthySendDone)

\* C18 as stated: while the send to a stuck subscriber never completes, every
\* other subscriber of the broadcast's topic is still eventually sent the
\* message (or the broadcast is over).
C18_StuckDoesNotBlock ==
  \A c \in Conns, y \in Conns \ {StuckConn} :
    (sess[c].pc = "bcast" /\ y \in bc[c].subs0 /\ y \notin bc[c].sent)
      ~> (sess[c].pc # "bcast" \/ y \in bc[c].sent)

\* ------------------------------------- periodic_broadcaster among sessions
\* The frames by which a session joins or leaves the stream of the periodic
\* broadcaster.
PeriodicFrames ==
  {m \in InFrames : /\ m.json /\ m.object
                    /\ m.type \in {"subscribe", "unsubscribe"}
                    /\ m.stream = "greetings"}

\* periodic_broadcaster running beside sessions that subscribe to greetings,
\* unsubscribe from it and disconnect.
NextPeriodic ==
  \/ \E c \in Conns : Accept(c)
  \/ \E c \in Conns : Disconnect(c)
  \/ \E c \in Conns, m \in PeriodicFrames : Receive(c, m)
  \/ \E c \in Conns, ok \in BOOLEAN : SessionSendDone(c, ok)
  \/ PeriodicTick
  \/ \E ok \in BOOLEAN : PeriodicSendDone(ok)

SpecPeriodic == Init /\ [][NextPeriodic]_vars

\* C19 as stated: the periodic broadcaster keeps working for the whole life
\* of the process: no send failure and no registry mutation during one of its
\* broadcasts ends the task, so every later tick still runs.
C19_PeriodicKeepsWorking == pb \in {"sleep", "bcast"}

\* ---------------------------------------------- heartbeat beside its session
\* Frames that drive a session through each of its ways to end: a ping (reply
\* send), a payload that is not an object (exception in the handler), and
\* subscribe, unsubscribe and message on one stream (broadcast, RuntimeError
\* in a broadcast).
HeartbeatFrames ==
  {m \in InFrames :
     \/ m.json /\ m.object /\ m.type = "ping"
     \/ m.json /\ ~m.object
     \/ /\ m.json /\ m.object
        /\ m.type \in {"subscribe", "unsubscribe", "message"}
        /\ m.stream = "alerts" /\ m.content \in {"x", Blank}}

\* The session tasks, each with its heartbeat task.
NextHeartbeat ==
  \/ \E c \in Conns : Accept(c)
  \/ \E c \in Conns : Timeout(c)
  \/ \E c \in Conns : Disconnect(c)
  \/ \E c \in Conns, m \in HeartbeatFrames : Receive(c, m)
  \/ \E c \in Conns, ok \in BOOLEAN : SessionSendDone(c, ok)
  \/ \E c \in Conns, ok \in BOOLEAN : SessionBroadcastSendDone(c, ok)
  \/ \E c \in Conns : HeartbeatTick(c)
  \/ \E c \in Conns, ok \in BOOLEAN : HeartbeatSendDone(c, ok)

SpecHeartbeat == Init /\ [][NextHeartbeat]_vars

\* A heartbeat task that has returned or was cancelled.
HeartbeatOver(c) == hb[c] \in {"done", "cancelled"}

\* C20: a connection has no heartbeat task before it is accepted and one from
\* then on; once the session is CLOSED, by whichever exit, the heartbeat task
\* is over and stays over, so it sends no ping afterwards; and a failed
\* heartbeat send ends the heartbeat task only, leaving the session, the
\* registry and the log as they were.
C20_HeartbeatBoundToSession ==
  /\ [](\A c \in Conns :
          /\ sess[c].pc = "accept" => hb[c] = "none"
          /\ sess[c].pc \notin {"accept", "closed"} => hb[c] \in {"sleep", "send", "done"}
          /\ sess[c].pc = "closed" => HeartbeatOver(c))
  /\ [][\A c \in Conns :
          /\ HeartbeatOver(c) => hb'[c] = hb[c]
          /\ HeartbeatSendDone(c, FALSE) =>
               /\ hb'[c] = "done"
               /\ UNCHANGED <<stream_subscriptions, client_streams, greetings, sess, bc>>]_vars

\* One session has ended with its heartbeat cancelled in the middle of a ping,
\* or asleep; another, whose heartbeat send failed, is still running and
\* subscribed.
C20_Witness ==
  \E c, d \in Conns :
    /\ sess[c].pc = "closed" /\ hb[c] = "cancelled"
    /\ sess[d].pc = "recv" /\ hb[d] = "done"
    /\ StreamsOf(stream_subscriptions, d) # {}
====
